---- MODULE Spec2Model ----
(***************************************************************************)
(* Model of the request dispatcher of the Qase MCP server (src/main.py):   *)
(* make_request, its rate-limit retry recursion, its error normalisation   *)
(* and the module-level configuration it reads.                            *)
(*                                                                         *)
(* One logical call is one invocation of make_request by a tool.  Each     *)
(* call owns a stack of make_request frames (the retry is a recursive      *)
(* call made inside the caller's `async with` block), a log of the         *)
(* network calls it issued, the outcomes it received and the sleeps it     *)
(* made, and the value travelling back through its frames.                 *)
(***************************************************************************)
EXTENDS Integers, Sequences, FiniteSets, TLC

\* ------------------------------------------------------------------------
\* Bounds
\* ------------------------------------------------------------------------

\* number of logical calls the host may have in flight
NumCalls == 2

Calls == 1..NumCalls

\* the call driven by the single-call specification
MainCall == CHOOSE c \in Calls : \A d \in Calls : c <= d

\* optional arguments a caller sets in one tool invocation, at most
MaxSetArgs == 2

\* ------------------------------------------------------------------------
\* Program constants (src/main.py:18-23)
\* ------------------------------------------------------------------------

QASE_API_BASE_URL == "https://api.qase.io/v1"

MAX_RETRIES == 3

RETRY_DELAY == 60

\* timeout=30.0 passed to client.request
REQUEST_TIMEOUT == 30

\* ------------------------------------------------------------------------
\* Python values.  A value is a record of one shape so that any two values
\* can be compared: its Python type and its items (key, value, key, value,
\* ... for a dict; the elements for a list).
\* ------------------------------------------------------------------------

PyNone == [type |-> "NoneType", items |-> <<>>]

PyDict(items) == [type |-> "dict", items |-> items]

PyList(items) == [type |-> "list", items |-> items]

PyInt(digits) == [type |-> "int", items |-> <<digits>>]

PyStr(text) == [type |-> "str", items |-> <<text>>]

\* {"error": msg}, the shape of every error make_request returns
ErrorDict(msg) == PyDict(<<"error", msg>>)

\* ------------------------------------------------------------------------
\* The process environment and the credential read from it at import
\* ------------------------------------------------------------------------

EnvUnset == [set |-> FALSE, value |-> ""]

Environs == {EnvUnset, [set |-> TRUE, value |-> ""], [set |-> TRUE, value |-> "secret-token"]}

\* os.environ.get("QASE_API_TOKEN", "")
EnvironGet(env, default) == IF env.set THEN env.value ELSE default

\* the check written as `is None`: the default "" passes it
TruthyIsNotNone(s) == TRUE

\* Python truthiness of a str
Truthy(s) == s # ""

\* ------------------------------------------------------------------------
\* Outcomes of one network call: an HTTP response (status, Retry-After
\* header, body as a sequence of JSON lexemes) or an httpx.RequestError
\* ------------------------------------------------------------------------

NoHeader == [present |-> FALSE, value |-> <<>>]

Header(chars) == [present |-> TRUE, value |-> chars]

\* Retry-After header values a remote may send, as character sequences:
\* delta-seconds ("2", "07"), an empty value and an HTTP-date
RetryAfterValues ==
    { <<"2">>, <<"0", "7">>, <<>>, <<"W", "e", "d">> }

Bodies ==
    { <<"{", "result", ":", "{id:1}", "}">>,
      <<"{", "error", ":", "Rate limit exceeded after maximum retries", "}">>,
      <<"[", "]">>,
      <<"null">>,
      <<"<html>">>,
      <<>> }

OtherStatuses == {200, 201, 301, 404, 500}

HttpResponse(status, retry_after, body) ==
    [kind |-> "response", status |-> status, retry_after |-> retry_after,
     body |-> body, msg |-> ""]

RequestError(msg) ==
    [kind |-> "RequestError", status |-> 0, retry_after |-> NoHeader,
     body |-> <<>>, msg |-> msg]

\* str(e) of the transport errors: a connect error and a timeout
TransportMessages == {"All connection attempts failed", ""}

Outcomes ==
    { HttpResponse(429, h, <<>>) : h \in {NoHeader} \cup {Header(v) : v \in RetryAfterValues} }
    \cup { HttpResponse(s, NoHeader, b) : s \in OtherStatuses, b \in Bodies }
    \cup { RequestError(m) : m \in TransportMessages }

\* ------------------------------------------------------------------------
\* Conversions
\* ------------------------------------------------------------------------

RECURSIVE Join(_)
\* the text made of a sequence of lexemes or characters
Join(seq) == IF seq = <<>> THEN "" ELSE Head(seq) \o Join(Tail(seq))

Digits == {"0", "1", "2", "3", "4", "5", "6", "7", "8", "9"}

DigitValue(ch) ==
    CASE ch = "0" -> 0 [] ch = "1" -> 1 [] ch = "2" -> 2 [] ch = "3" -> 3
      [] ch = "4" -> 4 [] ch = "5" -> 5 [] ch = "6" -> 6 [] ch = "7" -> 7
      [] ch = "8" -> 8 [] ch = "9" -> 9

RECURSIVE Decimal(_)
Decimal(chars) ==
    IF chars = <<>> THEN 0
    ELSE 10 * Decimal(SubSeq(chars, 1, Len(chars) - 1)) + DigitValue(chars[Len(chars)])

\* int(s) of a str: the number, or a ValueError
IntOfStr(chars) ==
    IF chars # <<>> /\ \A i \in 1..Len(chars) : chars[i] \in Digits
    THEN [ok |-> TRUE, n |-> Decimal(chars), msg |-> ""]
    ELSE [ok |-> FALSE, n |-> 0,
          msg |-> "invalid literal for int() with base 10: '" \o Join(chars) \o "'"]

\* the header never read: always the default delay
RetryAfterIgnoresHeader(resp) == [ok |-> TRUE, n |-> RETRY_DELAY, msg |-> ""]

\* int(response.headers.get("Retry-After", RETRY_DELAY)): the default is
\* already an int; a header present is a str and is parsed
RetryAfter(resp) ==
    IF resp.retry_after.present
    THEN IntOfStr(resp.retry_after.value)
    ELSE [ok |-> TRUE, n |-> RETRY_DELAY, msg |-> ""]

\* the body text returned as it is, never parsed
JsonTextNotParsed(body) ==
    [ok |-> TRUE, value |-> [type |-> "str", items |-> <<Join(body)>>], msg |-> ""]

\* response.json(): the parsed body, or a JSON decode error
Json(body) ==
    IF body = <<"null">> THEN [ok |-> TRUE, value |-> PyNone, msg |-> ""]
    ELSE IF body = <<"[", "]">> THEN [ok |-> TRUE, value |-> PyList(<<>>), msg |-> ""]
    ELSE IF Len(body) = 5 /\ body[1] = "{" /\ body[3] = ":" /\ body[5] = "}"
    THEN [ok |-> TRUE, value |-> PyDict(<<body[2], body[4]>>), msg |-> ""]
    ELSE [ok |-> FALSE, value |-> PyNone, msg |-> "Expecting value: line 1 column 1 (char 0)"]

\* only 4xx and 5xx raise: a redirect passes as a success
IsSuccessBelow400(status) == 200 <= status /\ status <= 399

\* response.is_success, the test raise_for_status makes
IsSuccess(status) == 200 <= status /\ status <= 299

\* ------------------------------------------------------------------------
\* The tools (src/main.py:80-374): each builds params or a body from its
\* arguments and calls make_request.  An invocation is the name of the tool
\* and the value of each of its arguments.
\* ------------------------------------------------------------------------

\* bool(v) of a Python value
Truth(v) ==
    CASE v.type = "NoneType" -> FALSE
      [] v.type = "int" -> v.items # <<"0">>
      [] v.type = "str" -> v.items # <<"">>
      [] OTHER -> v.items # <<>>

\* a value as it stands in a dict of the model
Repr(v) ==
    CASE v.type = "NoneType" -> "None"
      [] v.type \in {"int", "str"} -> v.items[1]
      [] OTHER -> "[" \o Join(v.items) \o "]"

\* d[key] = v for a key d does not hold yet
SetItem(d, key, v) == PyDict(d.items \o <<key, Repr(v)>>)

\* the copy made without a test
GuardAlways(test, v) == TRUE

\* the test guarding the copy of an optional argument:
\* `if arg:` or `if arg is not None:`
Guard(test, v) == IF test = "truthy" THEN Truth(v) ELSE v # PyNone

Field(arg, key, test) == [arg |-> arg, key |-> key, test |-> test]

RECURSIVE CopyArgs(_, _, _)
\* the chain of guarded copies `if <test on arg>: d[key] = arg`
CopyArgs(d, args, fields) ==
    IF fields = <<>> THEN d
    ELSE LET f == Head(fields)
         IN  CopyArgs(IF Guard(f.test, args[f.arg]) THEN SetItem(d, f.key, args[f.arg]) ELSE d,
                      args, Tail(fields))

\* qase_list_test_cases, lines 177-188
ListTestCasesFields ==
    << Field("filters_priority", "filters[priority]", "truthy"),
       Field("filters_type", "filters[type]", "truthy"),
       Field("filters_severity", "filters[severity]", "truthy"),
       Field("filters_automation", "filters[automation]", "truthy"),
       Field("filters_suite_id", "filters[suite_id]", "truthy"),
       Field("filters_search", "filters[search]", "truthy") >>

\* qase_create_test_case, lines 264-273
CreateTestCaseFields ==
    << Field("suite_id", "suite_id", "not_none"),
       Field("milestone_id", "milestone_id", "not_none"),
       Field("tags", "tags", "truthy"),
       Field("steps", "steps", "truthy"),
       Field("custom_fields", "custom_fields", "truthy") >>

\* qase_update_test_case, lines 345-372
UpdateTestCaseFields ==
    << Field("title", "title", "not_none"),
       Field("description", "description", "not_none"),
       Field("preconditions", "preconditions", "not_none"),
       Field("postconditions", "postconditions", "not_none"),
       Field("severity", "severity", "not_none"),
       Field("priority", "priority", "not_none"),
       Field("type_id", "type", "not_none"),
       Field("behavior", "behavior", "not_none"),
       Field("automation", "automation", "not_none"),
       Field("suite_id", "suite_id", "not_none"),
       Field("milestone_id", "milestone_id", "not_none"),
       Field("tags", "tags", "not_none"),
       Field("steps", "steps", "not_none"),
       Field("custom_fields", "custom_fields", "not_none") >>

\* the guarded copies of a tool
FieldsOf(name) ==
    CASE name = "qase_list_test_cases" -> ListTestCasesFields
      [] name = "qase_create_test_case" -> CreateTestCaseFields
      [] name = "qase_update_test_case" -> UpdateTestCaseFields
      [] OTHER -> <<>>

\* qase_list_projects, lines 95-96
ListProjects(args) ==
    [method |-> "GET", endpoint |-> "/project",
     params |-> PyDict(<<"limit", Repr(args["limit"]), "offset", Repr(args["offset"])>>),
     json_data |-> PyNone]

\* qase_list_test_cases, lines 175-190
ListTestCases(args) ==
    [method |-> "GET", endpoint |-> "/case/" \o Repr(args["project_code"]),
     params |-> CopyArgs(PyDict(<<"limit", Repr(args["limit"]), "offset", Repr(args["offset"])>>),
                         args, ListTestCasesFields),
     json_data |-> PyNone]

\* qase_create_test_case, lines 252-275
CreateTestCase(args) ==
    [method |-> "POST", endpoint |-> "/case/" \o Repr(args["project_code"]),
     params |-> PyNone,
     json_data |->
        CopyArgs(PyDict(<<"title", Repr(args["title"]),
                          "description", Repr(args["description"]),
                          "preconditions", Repr(args["preconditions"]),
                          "postconditions", Repr(args["postconditions"]),
                          "severity", Repr(args["severity"]),
                          "priority", Repr(args["priority"]),
                          "type", Repr(args["type_id"]),
                          "behavior", Repr(args["behavior"]),
                          "automation", Repr(args["automation"])>>),
                 args, CreateTestCaseFields)]

\* qase_update_test_case, lines 343-374
UpdateTestCase(args) ==
    [method |-> "PATCH",
     endpoint |-> "/case/" \o Repr(args["project_code"]) \o "/" \o Repr(args["case_id"]),
     params |-> PyNone,
     json_data |-> CopyArgs(PyDict(<<>>), args, UpdateTestCaseFields)]

\* the arguments a tool passes to make_request; none passes `retries`
ToolRequest(t) ==
    CASE t.name = "qase_list_projects" -> ListProjects(t.args)
      [] t.name = "qase_list_test_cases" -> ListTestCases(t.args)
      [] t.name = "qase_create_test_case" -> CreateTestCase(t.args)
      [] t.name = "qase_update_test_case" -> UpdateTestCase(t.args)

\* the tool hands on only the "result" member of what it was handed
ToolReturnResultOnly(value) ==
    IF value.type = "dict" /\ value.items # <<>> /\ value.items[1] = "result"
    THEN PyStr(value.items[2])
    ELSE PyNone

\* `return await make_request(...)`: what a tool returns to the host for
\* the value make_request returned to it
ToolReturn(value) == value

\* the arguments of each tool that are not optional, at their defaults
\* where they have one
BaseArgs(name) ==
    CASE name = "qase_list_projects" ->
            [a \in {"limit", "offset"} |-> IF a = "limit" THEN PyInt("100") ELSE PyInt("0")]
      [] name = "qase_list_test_cases" ->
            [a \in {"project_code", "limit", "offset"} |->
                CASE a = "project_code" -> PyStr("DEMO")
                  [] a = "limit" -> PyInt("100")
                  [] a = "offset" -> PyInt("0")]
      [] name = "qase_create_test_case" ->
            [a \in {"project_code", "title", "description", "preconditions", "postconditions",
                    "severity", "priority", "type_id", "behavior", "automation"} |->
                CASE a = "project_code" -> PyStr("DEMO")
                  [] a = "title" -> PyStr("Login works")
                  [] a \in {"description", "preconditions", "postconditions"} -> PyStr("")
                  [] a = "severity" -> PyInt("4")
                  [] a = "priority" -> PyInt("2")
                  [] a = "type_id" -> PyInt("1")
                  [] a = "behavior" -> PyInt("2")
                  [] a = "automation" -> PyStr("is-not-automated")]
      [] name = "qase_update_test_case" ->
            [a \in {"project_code", "case_id"} |->
                IF a = "project_code" THEN PyStr("DEMO") ELSE PyInt("1")]

\* the declared type of each optional argument (default None)
OptionalType(arg) ==
    CASE arg \in {"filters_suite_id", "suite_id", "milestone_id", "severity", "priority",
                  "type_id", "behavior"} -> "int"
      [] arg \in {"tags", "steps", "custom_fields"} -> "list"
      [] OTHER -> "str"

\* a value of each type that is false in a test, and one that is true
Falsy(type) ==
    CASE type = "int" -> PyInt("0") [] type = "list" -> PyList(<<>>) [] OTHER -> PyStr("")

Truthful(type) ==
    CASE type = "int" -> PyInt("5") [] type = "list" -> PyList(<<"a">>) [] OTHER -> PyStr("x")

OptionalArgs(name) == {FieldsOf(name)[i].arg : i \in 1..Len(FieldsOf(name))}

\* every invocation of a tool in which the caller sets at most MaxSetArgs
\* optional arguments, each to a false or to a true value
Invocations(name) ==
    UNION { { [name |-> name,
               args |-> [a \in DOMAIN BaseArgs(name) \cup OptionalArgs(name) |->
                            IF a \in DOMAIN BaseArgs(name) THEN BaseArgs(name)[a]
                            ELSE IF a \notin S THEN PyNone
                            ELSE IF choice[a] THEN Truthful(OptionalType(a))
                            ELSE Falsy(OptionalType(a))]] :
              choice \in [S -> BOOLEAN] } :
            S \in {T \in SUBSET OptionalArgs(name) : Cardinality(T) <= MaxSetArgs} }

ToolNames ==
    {"qase_list_projects", "qase_list_test_cases", "qase_create_test_case",
     "qase_update_test_case"}

AllToolCalls == UNION {Invocations(name) : name \in ToolNames}

\* the invocations the dispatcher is driven with: each tool, no optional
\* argument set
ToolCalls == {t \in AllToolCalls : \A a \in OptionalArgs(t.name) : t.args[a] = PyNone}

\* ------------------------------------------------------------------------
\* Requests a tool hands to make_request: method, endpoint, params, json_data
\* ------------------------------------------------------------------------

Requests == {ToolRequest(t) : t \in ToolCalls}

NoTool == [name |-> "", args |-> <<>>]

\* ------------------------------------------------------------------------
\* The values make_request returns
\* ------------------------------------------------------------------------

ConfigFailure == ErrorDict("QASE_API_TOKEN environment variable is not set")

RateLimitFailure == ErrorDict("Rate limit exceeded after maximum retries")

HttpFailure(status, text) ==
    ErrorDict("HTTP error: " \o ToString(status) \o " - " \o text)

RequestFailure(msg) == ErrorDict("Request error: " \o msg)

UnexpectedFailure(msg) == ErrorDict("Unexpected error: " \o msg)

\* ------------------------------------------------------------------------
\* State
\* ------------------------------------------------------------------------

\* the QASE_API_TOKEN entry of the process environment
VARIABLE environ

\* the module global read from it at import
VARIABLE QASE_API_TOKEN

\* per call: Idle, Start, Sending, Waiting, Returning, Done; Raising and
\* Raised while and after an exception leaves the frames
VARIABLE pc

\* per call: the arguments the tool passed
VARIABLE request

\* per call: its make_request frames, innermost last
VARIABLE stack

\* per call: network calls, outcomes and sleeps, in order
VARIABLE log

\* per call: the value being returned, or the exception being raised,
\* through the frames
VARIABLE retval

\* per call: the return statement that produced retval
VARIABLE site

\* per call: the values handed to the tool that called
VARIABLE delivered

\* per call: the tool invocation the host made
VARIABLE tool

\* per call: the values the tool returned to the host
VARIABLE returned

vars == <<environ, QASE_API_TOKEN, pc, request, stack, log, retval, site, delivered,
          tool, returned>>

NoRequest == [method |-> "", endpoint |-> "", params |-> PyNone, json_data |-> PyNone]

Frame(retries, client) == [retries |-> retries, client |-> client]

Top(c) == stack[c][Len(stack[c])]

SendEvent(req) == [ev |-> "send", req |-> req]

RecvEvent(out) == [ev |-> "recv", out |-> out]

SleepEvent(secs) == [ev |-> "sleep", secs |-> secs]

IsSend(e) == e.ev = "send"

IsRecv(e) == e.ev = "recv"

IsSleep(e) == e.ev = "sleep"

\* the network calls, the outcomes and the sleeps of a call, in order
Sent(c) == SelectSeq(log[c], IsSend)

Received(c) == SelectSeq(log[c], IsRecv)

Waits(c) == SelectSeq(log[c], IsSleep)

Init ==
    /\ environ \in Environs
    /\ QASE_API_TOKEN = EnvironGet(environ, "")
    /\ pc = [c \in Calls |-> "Idle"]
    /\ request = [c \in Calls |-> NoRequest]
    /\ stack = [c \in Calls |-> <<>>]
    /\ log = [c \in Calls |-> <<>>]
    /\ retval = [c \in Calls |-> PyNone]
    /\ site = [c \in Calls |-> "none"]
    /\ delivered = [c \in Calls |-> <<>>]
    /\ tool = [c \in Calls |-> NoTool]
    /\ returned = [c \in Calls |-> <<>>]

\* ------------------------------------------------------------------------
\* make_request (src/main.py:26-72)
\* ------------------------------------------------------------------------

\* the headers built without the credential
NetworkCallNoToken(req, token) ==
    [method |-> req.method,
     url |-> QASE_API_BASE_URL \o req.endpoint,
     headers |-> [Token |-> "", ContentType |-> "application/json"],
     params |-> req.params,
     json |-> req.json_data,
     timeout |-> REQUEST_TIMEOUT]

\* the arguments of client.request (lines 37-52)
NetworkCall(req, token) ==
    [method |-> req.method,
     url |-> QASE_API_BASE_URL \o req.endpoint,
     headers |-> [Token |-> token, ContentType |-> "application/json"],
     params |-> req.params,
     json |-> req.json_data,
     timeout |-> REQUEST_TIMEOUT]

Return(value, line) == [next |-> "return", secs |-> 0, value |-> value, site |-> line]

Sleep(secs) == [next |-> "sleep", secs |-> secs, value |-> PyNone, site |-> "none"]

\* server errors taken for throttling too
RateLimitedOr5xx(status) == status = 429 \/ status >= 500

\* the test of line 55
RateLimited(status) == status = 429

\* the exception classes that derive from BaseException and not from
\* Exception: the one a cancelled task is resumed with
BaseExceptions == {"CancelledError"}

\* an exception of class `exc` raised inside the try block
Raise(exc, status, text) ==
    [next |-> "raise", secs |-> 0, value |-> [type |-> exc, items |-> <<text>>],
     site |-> "none", status |-> status]

\* the budget test written `retries <= MAX_RETRIES`
TryResponseInclusiveBudget(out, retries) ==
    IF RateLimited(out.status)
    THEN IF retries <= MAX_RETRIES
         THEN LET ra == RetryAfter(out)
              IN  IF ra.ok THEN Sleep(ra.n)
                  ELSE Raise("ValueError", 0, ra.msg)
         ELSE Return(RateLimitFailure, "L62")
    ELSE IF ~IsSuccess(out.status)
    THEN Raise("HTTPStatusError", out.status, Join(out.body))
    ELSE LET j == Json(out.body)
         IN  IF j.ok THEN Return(j.value, "L65")
             ELSE Raise("JSONDecodeError", 0, j.msg)

\* lines 55-65: what the try block of a frame running with `retries` does
\* with an HTTP response: sleep, return, or raise
TryResponse(out, retries) ==
    IF RateLimited(out.status)
    THEN IF retries < MAX_RETRIES
         THEN LET ra == RetryAfter(out)
              IN  IF ra.ok THEN Sleep(ra.n)
                  ELSE Raise("ValueError", 0, ra.msg)
         ELSE Return(RateLimitFailure, "L62")
    ELSE IF ~IsSuccess(out.status)
    THEN Raise("HTTPStatusError", out.status, Join(out.body))
    ELSE LET j == Json(out.body)
         IN  IF j.ok THEN Return(j.value, "L65")
             ELSE Raise("JSONDecodeError", 0, j.msg)

\* no `except Exception` clause: only the two httpx classes are caught
HandlersNoCatchAll(step) ==
    IF step.next # "raise" THEN step
    ELSE IF step.value.type = "HTTPStatusError"
    THEN Return(HttpFailure(step.status, step.value.items[1]), "L68")
    ELSE IF step.value.type = "RequestError"
    THEN Return(RequestFailure(step.value.items[1]), "L70")
    ELSE step

\* the transport error logged and raised again
HandlersReraiseTransport(step) ==
    IF step.next # "raise" THEN step
    ELSE IF step.value.type = "HTTPStatusError"
    THEN Return(HttpFailure(step.status, step.value.items[1]), "L68")
    ELSE IF step.value.type = "RequestError"
    THEN step
    ELSE Return(UnexpectedFailure(step.value.items[1]), "L72")

\* asyncio.CancelledError taken for a subclass of Exception, as it was
\* before Python 3.8: the last clause catches it
HandlersCatchCancelled(step) ==
    IF step.next # "raise" THEN step
    ELSE IF step.value.type = "HTTPStatusError"
    THEN Return(HttpFailure(step.status, step.value.items[1]), "L68")
    ELSE IF step.value.type = "RequestError"
    THEN Return(RequestFailure(step.value.items[1]), "L70")
    ELSE Return(UnexpectedFailure(step.value.items[1]), "L72")

\* the except clauses of lines 67-72, applied to what the try block did;
\* `except Exception` lets pass what derives from BaseException only
Handlers(step) ==
    IF step.next # "raise" THEN step
    ELSE IF step.value.type \in BaseExceptions
    THEN step
    ELSE IF step.value.type = "HTTPStatusError"
    THEN Return(HttpFailure(step.status, step.value.items[1]), "L68")
    ELSE IF step.value.type = "RequestError"
    THEN Return(RequestFailure(step.value.items[1]), "L70")
    ELSE Return(UnexpectedFailure(step.value.items[1]), "L72")

\* lines 55-72: what a frame running with `retries` does with an HTTP
\* response
InterpretResponse(out, retries) == Handlers(TryResponse(out, retries))

\* a transport error retried like a 429
InterpretRetriesTransport(out, retries) ==
    IF out.kind = "RequestError"
    THEN IF retries < MAX_RETRIES
         THEN Sleep(RETRY_DELAY)
         ELSE Return(RequestFailure(out.msg), "L70")
    ELSE InterpretResponse(out, retries)

\* what a frame running with `retries` does with the outcome of its network
\* call (lines 44-72): sleep before a retry, or return a value
Interpret(out, retries) ==
    IF out.kind = "RequestError"
    THEN Handlers(Raise("RequestError", 0, out.msg))
    ELSE InterpretResponse(out, retries)

\* the recursive call written make_request(method, endpoint,
\* retries=retries + 1): params and json_data fall back to None
MakeRequestRetryDropsBody(c, below, retries) ==
    IF ~Truthy(QASE_API_TOKEN)
    THEN /\ stack' = [stack EXCEPT ![c] = Append(below, Frame(retries, FALSE))]
         /\ retval' = [retval EXCEPT ![c] = ConfigFailure]
         /\ site' = [site EXCEPT ![c] = "L35"]
         /\ pc' = [pc EXCEPT ![c] = "Returning"]
         /\ UNCHANGED log
    ELSE /\ stack' = [stack EXCEPT ![c] = Append(below, Frame(retries, TRUE))]
         /\ log' = [log EXCEPT ![c] =
                       Append(@, SendEvent(NetworkCall(
                           IF retries = 0 THEN request[c]
                           ELSE [request[c] EXCEPT !.params = PyNone, !.json_data = PyNone],
                           QASE_API_TOKEN)))]
         /\ pc' = [pc EXCEPT ![c] = "Sending"]
         /\ UNCHANGED <<retval, site>>

\* a frame of make_request starts with `retries` on top of the frames
\* `below` (lines 34-52): the credential check, then the client is opened
\* and the request issued
MakeRequest(c, below, retries) ==
    IF ~Truthy(QASE_API_TOKEN)
    THEN /\ stack' = [stack EXCEPT ![c] = Append(below, Frame(retries, FALSE))]
         /\ retval' = [retval EXCEPT ![c] = ConfigFailure]
         /\ site' = [site EXCEPT ![c] = "L35"]
         /\ pc' = [pc EXCEPT ![c] = "Returning"]
         /\ UNCHANGED log
    ELSE /\ stack' = [stack EXCEPT ![c] = Append(below, Frame(retries, TRUE))]
         /\ log' = [log EXCEPT ![c] =
                       Append(@, SendEvent(NetworkCall(request[c], QASE_API_TOKEN)))]
         /\ pc' = [pc EXCEPT ![c] = "Sending"]
         /\ UNCHANGED <<retval, site>>

\* the host invokes a tool, which builds its request and calls
\* make_request(method, endpoint, params=..., json_data=...)
CallTool(c, t) ==
    /\ pc[c] = "Idle"
    /\ tool' = [tool EXCEPT ![c] = t]
    /\ request' = [request EXCEPT ![c] = ToolRequest(t)]
    /\ pc' = [pc EXCEPT ![c] = "Start"]
    /\ UNCHANGED <<environ, QASE_API_TOKEN, stack, log, retval, site, delivered, returned>>

\* the host invokes one of the tools the dispatcher is driven with
Invoke(c) == \E t \in ToolCalls : CallTool(c, t)

\* the coroutine of the call starts running, retries at its default 0
Begin(c) ==
    /\ pc[c] = "Start"
    /\ MakeRequest(c, <<>>, 0)
    /\ UNCHANGED <<environ, QASE_API_TOKEN, request, delivered, tool, returned>>

\* the retries made by all the calls together, as a counter kept in a
\* module global would hold them
TotalRetries == LET RECURSIVE Sum(_)
                    Sum(n) == IF n = 0 THEN 0
                              ELSE Sum(n - 1) + (IF stack[n] = <<>> THEN 0
                                                 ELSE stack[n][Len(stack[n])].retries)
                IN  Sum(NumCalls)

\* the retry budget counted in a module global shared by all calls
ReceiveSharedBudget(c, out) ==
    /\ pc[c] = "Sending"
    /\ LET step == Interpret(out, TotalRetries)
       IN  IF step.next = "sleep"
           THEN /\ log' = [log EXCEPT ![c] = @ \o <<RecvEvent(out), SleepEvent(step.secs)>>]
                /\ pc' = [pc EXCEPT ![c] = "Waiting"]
                /\ UNCHANGED <<retval, site>>
           ELSE /\ log' = [log EXCEPT ![c] = Append(@, RecvEvent(out))]
                /\ retval' = [retval EXCEPT ![c] = step.value]
                /\ site' = [site EXCEPT ![c] = step.site]
                /\ pc' = [pc EXCEPT ![c] =
                            IF step.next = "raise" THEN "Raising" ELSE "Returning"]
    /\ UNCHANGED <<environ, QASE_API_TOKEN, request, stack, delivered, tool, returned>>

\* `await asyncio.sleep(retry_after)` missing: the retry follows the 429
\* at once
ReceiveRetriesAtOnce(c, out) ==
    /\ pc[c] = "Sending"
    /\ LET step == Interpret(out, Top(c).retries)
       IN  IF step.next = "sleep"
           THEN /\ log' = [log EXCEPT ![c] = Append(@, RecvEvent(out))]
                /\ pc' = [pc EXCEPT ![c] = "Waiting"]
                /\ UNCHANGED <<retval, site>>
           ELSE /\ log' = [log EXCEPT ![c] = Append(@, RecvEvent(out))]
                /\ retval' = [retval EXCEPT ![c] = step.value]
                /\ site' = [site EXCEPT ![c] = step.site]
                /\ pc' = [pc EXCEPT ![c] =
                            IF step.next = "raise" THEN "Raising" ELSE "Returning"]
    /\ UNCHANGED <<environ, QASE_API_TOKEN, request, stack, delivered, tool, returned>>

\* the network call of the innermost frame completes with outcome `out`
\* (lines 45-72, up to the sleep or the return)
Receive(c, out) ==
    /\ pc[c] = "Sending"
    /\ LET step == Interpret(out, Top(c).retries)
       IN  IF step.next = "sleep"
           THEN /\ log' = [log EXCEPT ![c] = @ \o <<RecvEvent(out), SleepEvent(step.secs)>>]
                /\ pc' = [pc EXCEPT ![c] = "Waiting"]
                /\ UNCHANGED <<retval, site>>
           ELSE /\ log' = [log EXCEPT ![c] = Append(@, RecvEvent(out))]
                /\ retval' = [retval EXCEPT ![c] = step.value]
                /\ site' = [site EXCEPT ![c] = step.site]
                /\ pc' = [pc EXCEPT ![c] =
                            IF step.next = "raise" THEN "Raising" ELSE "Returning"]
    /\ UNCHANGED <<environ, QASE_API_TOKEN, request, stack, delivered, tool, returned>>

\* the network call of the innermost frame completes, with any outcome
Respond(c) == \E out \in Outcomes : Receive(c, out)

\* the default delay awaited on an event nothing sets: only a wait whose
\* length came from a header ends
WakeOnlyAfterHeader(c) ==
    /\ pc[c] = "Waiting"
    /\ log[c][Len(log[c]) - 1].out.retry_after.present
    /\ MakeRequest(c, stack[c], Top(c).retries + 1)
    /\ UNCHANGED <<environ, QASE_API_TOKEN, request, delivered, tool, returned>>

\* the retry made after the `async with` block of the frame is left: the
\* client of the frame is closed before the next one is opened
WakeAfterClose(c) ==
    /\ pc[c] = "Waiting"
    /\ MakeRequest(c, SubSeq(stack[c], 1, Len(stack[c]) - 1), Top(c).retries + 1)
    /\ UNCHANGED <<environ, QASE_API_TOKEN, request, delivered, tool, returned>>

\* asyncio.sleep returns and the frame calls make_request with retries + 1
Wake(c) ==
    /\ pc[c] = "Waiting"
    /\ MakeRequest(c, stack[c], Top(c).retries + 1)
    /\ UNCHANGED <<environ, QASE_API_TOKEN, request, delivered, tool, returned>>

\* `return` missing before the recursive call: the frame that retried goes
\* on to raise_for_status with its own 429 response
UnwindDropsRetryResult(c) ==
    /\ pc[c] = "Returning"
    /\ stack' = [stack EXCEPT ![c] = SubSeq(@, 1, Len(@) - 1)]
    /\ IF Len(stack[c]) = 1
       THEN /\ delivered' = [delivered EXCEPT ![c] = Append(@, retval[c])]
            /\ returned' = [returned EXCEPT ![c] = Append(@, ToolReturn(retval[c]))]
            /\ pc' = [pc EXCEPT ![c] = "Done"]
            /\ UNCHANGED retval
       ELSE /\ retval' = [retval EXCEPT ![c] = HttpFailure(429, "")]
            /\ UNCHANGED <<delivered, returned, pc>>
    /\ UNCHANGED <<environ, QASE_API_TOKEN, request, log, site, tool>>

\* every frame hands its value to the tool, not only the first one
UnwindDeliversEachFrame(c) ==
    /\ pc[c] = "Returning"
    /\ stack' = [stack EXCEPT ![c] = SubSeq(@, 1, Len(@) - 1)]
    /\ delivered' = [delivered EXCEPT ![c] = Append(@, retval[c])]
    /\ returned' = [returned EXCEPT ![c] = Append(@, ToolReturn(retval[c]))]
    /\ pc' = [pc EXCEPT ![c] = IF Len(stack[c]) = 1 THEN "Done" ELSE @]
    /\ UNCHANGED <<environ, QASE_API_TOKEN, request, log, retval, site, tool>>

\* the innermost frame leaves its `async with` block and returns retval to
\* its caller: the frame below it, or the tool when it is the first frame,
\* and the tool returns to the host at once what it was handed.  An
\* exception no except clause caught leaves the frames the same way and
\* then the tool.
Unwind(c) ==
    /\ pc[c] \in {"Returning", "Raising"}
    /\ stack' = [stack EXCEPT ![c] = SubSeq(@, 1, Len(@) - 1)]
    /\ IF Len(stack[c]) > 1
       THEN UNCHANGED <<delivered, returned, pc>>
       ELSE IF pc[c] = "Returning"
       THEN /\ delivered' = [delivered EXCEPT ![c] = Append(@, retval[c])]
            /\ returned' = [returned EXCEPT ![c] = Append(@, ToolReturn(retval[c]))]
            /\ pc' = [pc EXCEPT ![c] = "Done"]
       ELSE /\ pc' = [pc EXCEPT ![c] = "Raised"]
            /\ UNCHANGED <<delivered, returned>>
    /\ UNCHANGED <<environ, QASE_API_TOKEN, request, log, retval, site, tool>>

Next ==
    \E c \in {MainCall} :
        \/ Invoke(c)
        \/ Begin(c)
        \/ Respond(c)
        \/ Wake(c)
        \/ Unwind(c)

Spec == Init /\ [][Next]_vars

\* The single call under the scheduling the code relies on: the event loop
\* runs a coroutine that is ready, client.request ends within its timeout
\* with a response or an error, asyncio.sleep ends, and a frame that
\* returns is left.  The host need not invoke anything.
Fairness ==
    /\ WF_vars(Begin(MainCall))
    /\ WF_vars(Respond(MainCall))
    /\ WF_vars(Wake(MainCall))
    /\ WF_vars(Unwind(MainCall))

LiveSpec == Spec /\ Fairness

\* ------------------------------------------------------------------------
\* The tools alone: the host invokes any tool with any of the argument
\* values of the model, and the call goes as far as its first network call
\* ------------------------------------------------------------------------

InvokeAny(c) == \E t \in AllToolCalls : CallTool(c, t)

NextTools ==
    \E c \in {MainCall} :
        \/ InvokeAny(c)
        \/ Begin(c)

SpecTools == Init /\ [][NextTools]_vars

\* ------------------------------------------------------------------------
\* Several calls in flight at once: the host invokes every call, the event
\* loop interleaves their steps.  The remote is one that throttles, answers
\* or fails; the calls make the same invocation.
\* ------------------------------------------------------------------------

ConcOutcomes ==
    { HttpResponse(429, Header(<<"2">>), <<>>),
      HttpResponse(200, NoHeader, <<"{", "result", ":", "{id:1}", "}">>),
      HttpResponse(500, NoHeader, <<"<html>">>) }

ConcToolCalls == {t \in ToolCalls : t.name = "qase_list_projects"}

InvokeConc(c) == \E t \in ConcToolCalls : CallTool(c, t)

RespondConc(c) == \E out \in ConcOutcomes : Receive(c, out)

NextConc ==
    \E c \in Calls :
        \/ InvokeConc(c)
        \/ Begin(c)
        \/ RespondConc(c)
        \/ Wake(c)
        \/ Unwind(c)

\* the credential is set: the calls reach the network
InitConc == Init /\ environ.set /\ environ.value # ""

SpecConc == InitConc /\ [][NextConc]_vars

\* ------------------------------------------------------------------------
\* Cancellation: the host cancels the task of a call that is suspended in
\* `await client.request(...)` (line 45) or `await asyncio.sleep(...)`
\* (line 58).  The await raises asyncio.CancelledError inside the try block
\* of the innermost frame.
\* ------------------------------------------------------------------------

Cancel(c) ==
    /\ pc[c] \in {"Sending", "Waiting"}
    /\ LET step == Handlers(Raise("CancelledError", 0, ""))
       IN  /\ retval' = [retval EXCEPT ![c] = step.value]
           /\ site' = [site EXCEPT ![c] = step.site]
           /\ pc' = [pc EXCEPT ![c] = IF step.next = "raise" THEN "Raising" ELSE "Returning"]
    /\ UNCHANGED <<environ, QASE_API_TOKEN, request, stack, log, delivered, tool, returned>>

NextCancel ==
    \E c \in Calls :
        \/ InvokeConc(c)
        \/ Begin(c)
        \/ RespondConc(c)
        \/ Wake(c)
        \/ Unwind(c)
        \/ Cancel(c)

SpecCancel == InitConc /\ [][NextCancel]_vars

TypeOK ==
    /\ environ \in Environs
    /\ \A c \in Calls :
        /\ pc[c] \in {"Idle", "Start", "Sending", "Waiting", "Returning", "Done",
                     "Raising", "Raised"}
        /\ request[c] \in Requests \cup {NoRequest}
        /\ Len(stack[c]) <= MAX_RETRIES + 1
        /\ Len(delivered[c]) <= 1

\* ------------------------------------------------------------------------
\* Properties
\* ------------------------------------------------------------------------

Last(seq) == seq[Len(seq)]

\* the retries value of the frame whose network call the i-th log entry
\* belongs to: the network calls issued up to there, less one
AttemptAt(c, i) == Len(SelectSeq(SubSeq(log[c], 1, i), IsSend)) - 1

Is429(out) == out.kind = "response" /\ out.status = 429

Unparsable(out) ==
    /\ out.retry_after.present
    /\ \/ out.retry_after.value = <<>>
       \/ \E i \in 1..Len(out.retry_after.value) : out.retry_after.value[i] \notin Digits

\* C1: a call that has received nothing but 429 responses ends after at most
\* MAX_RETRIES + 1 network calls with the rate-limit Failure as its value.
C1_OnlyRateLimited ==
    \A c \in Calls :
        (/\ pc[c] = "Done"
         /\ Received(c) # <<>>
         /\ \A i \in 1..Len(Received(c)) : Is429(Received(c)[i].out))
        => /\ Len(Sent(c)) <= MAX_RETRIES + 1
           /\ delivered[c] = <<RateLimitFailure>>

\* C2: a call hands exactly one value to its caller, when it is done and not
\* before, and that value is the outcome of its last network call: the 429
\* responses before it only caused waits.
C2_OneTerminalResponse ==
    \A c \in Calls :
        /\ Len(delivered[c]) = (IF pc[c] = "Done" THEN 1 ELSE 0)
        /\ \A i \in 1..Len(Received(c)) - 1 : Is429(Received(c)[i].out)
        /\ (pc[c] = "Done" /\ Received(c) # <<>>)
           => delivered[c] =
                <<Interpret(Last(Received(c)).out, Len(Received(c)) - 1).value>>

C2_Witness ==
    \E c \in Calls :
        /\ pc[c] = "Done"
        /\ Len(Received(c)) = 3
        /\ Len(delivered[c]) = 1

\* C3: without a credential (variable empty or absent) a call issues no
\* network call and its value is the configuration Failure; the return of
\* the configuration Failure is never preceded by a network call.
C3_NoCredentialNoNetwork ==
    \A c \in Calls :
        /\ (~environ.set \/ environ.value = "")
           => /\ Sent(c) = <<>>
              /\ pc[c] = "Done" => delivered[c] = <<ConfigFailure>>
        /\ site[c] = "L35" => Sent(c) = <<>>

C3_Witness ==
    \E c \in Calls :
        /\ ~environ.set
        /\ request[c].method = "POST"
        /\ pc[c] = "Done"
        /\ delivered[c] = <<ConfigFailure>>

\* C4: a 429 received with retries left whose Retry-After is present but
\* not a number is followed by a 60-second wait.
C4_UnparsableFallsBack ==
    \A c \in Calls :
        \A i \in 1..Len(log[c]) :
            (/\ IsRecv(log[c][i])
             /\ Is429(log[c][i].out)
             /\ Unparsable(log[c][i].out)
             /\ AttemptAt(c, i) < MAX_RETRIES)
            => /\ i < Len(log[c])
               /\ log[c][i + 1] = SleepEvent(60)

\* the seconds the Retry-After values of the model stand for
DeltaSeconds(chars) ==
    CASE chars = <<"2">> -> 2
      [] chars = <<"0", "7">> -> 7

DemoReply == HttpResponse(200, NoHeader, <<"{", "result", ":", "{id:1}", "}">>)

\* C5: a 429 received with retries left is followed by a wait of the seconds
\* its Retry-After header states, or of 60 seconds when it has none; a POST
\* /case/DEMO answered 429 with Retry-After: 2 and then 200 waits 2 and
\* returns the body.
C5_WaitFollowsRetryAfter ==
    \A c \in Calls :
        /\ \A i \in 1..Len(log[c]) :
            (/\ IsRecv(log[c][i])
             /\ Is429(log[c][i].out)
             /\ ~Unparsable(log[c][i].out)
             /\ AttemptAt(c, i) < MAX_RETRIES)
            => /\ i < Len(log[c])
               /\ log[c][i + 1] =
                    SleepEvent(IF log[c][i].out.retry_after.present
                               THEN DeltaSeconds(log[c][i].out.retry_after.value)
                               ELSE 60)
        /\ (/\ pc[c] = "Done"
            /\ Received(c) = <<RecvEvent(HttpResponse(429, Header(<<"2">>), <<>>)),
                               RecvEvent(DemoReply)>>)
           => /\ Waits(c) = <<SleepEvent(2)>>
              /\ delivered[c] = <<PyDict(<<"result", "{id:1}">>)>>

C5_Witness ==
    \E c \in Calls :
        /\ pc[c] = "Done"
        /\ request[c].endpoint = "/case/DEMO"
        /\ Received(c) = <<RecvEvent(HttpResponse(429, Header(<<"2">>), <<>>)),
                           RecvEvent(DemoReply)>>
        /\ Waits(c) = <<SleepEvent(2)>>

\* the bodies of the model that are JSON texts, and the value each denotes
ValidBodies ==
    { <<"{", "result", ":", "{id:1}", "}">>,
      <<"{", "error", ":", "Rate limit exceeded after maximum retries", "}">>,
      <<"[", "]">>,
      <<"null">> }

ParsedBody(body) ==
    CASE body = <<"{", "result", ":", "{id:1}", "}">> -> PyDict(<<"result", "{id:1}">>)
      [] body = <<"{", "error", ":", "Rate limit exceeded after maximum retries", "}">>
            -> PyDict(<<"error", "Rate limit exceeded after maximum retries">>)
      [] body = <<"[", "]">> -> PyList(<<>>)
      [] body = <<"null">> -> PyNone

Is2xx(out) == out.kind = "response" /\ out.status \in 200..299

IsHttpError(out) == out.kind = "response" /\ out.status \notin 200..299 /\ out.status # 429

IsTransportError(out) == out.kind = "RequestError"

IsMalformed(out) == Is2xx(out) /\ out.body \notin ValidBodies

\* C6: a call that received k 429 responses (1 <= k <= 3) and then a 200
\* with a JSON body returns the value of that body, after k + 1 network
\* calls and k waits.
C6_SuccessAfterRetries ==
    \A c \in Calls :
        \A k \in 1..MAX_RETRIES :
            (/\ pc[c] = "Done"
             /\ Len(Received(c)) = k + 1
             /\ \A i \in 1..k : Is429(Received(c)[i].out)
             /\ Received(c)[k + 1].out.kind = "response"
             /\ Received(c)[k + 1].out.status = 200
             /\ Received(c)[k + 1].out.body \in ValidBodies)
            => /\ delivered[c] = <<ParsedBody(Received(c)[k + 1].out.body)>>
               /\ Len(Sent(c)) = k + 1
               /\ Len(Waits(c)) = k

C6_Witness ==
    \E c \in Calls :
        /\ pc[c] = "Done"
        /\ Len(Received(c)) = MAX_RETRIES + 1
        /\ \A i \in 1..MAX_RETRIES : Is429(Received(c)[i].out)
        /\ Last(Received(c)).out = DemoReply
        /\ Len(Sent(c)) = MAX_RETRIES + 1

\* C7: when the first response is neither 2xx nor 429 the call makes one
\* network call, never waits, and returns the HTTP-error Failure holding
\* the status code and the body text.
C7_HttpErrorNoRetry ==
    \A c \in Calls :
        (Received(c) # <<>> /\ IsHttpError(Received(c)[1].out))
        => LET out == Received(c)[1].out
               failure == ErrorDict("HTTP error: " \o ToString(out.status)
                                    \o " - " \o Join(out.body))
           IN  /\ Len(Sent(c)) = 1
               /\ Len(Received(c)) = 1
               /\ Waits(c) = <<>>
               /\ pc[c] \in {"Returning", "Done"}
               /\ retval[c] = failure
               /\ pc[c] = "Done" => delivered[c] = <<failure>>
               /\ (out.status = 404 /\ out.body = <<"<html>">>)
                  => retval[c] = ErrorDict("HTTP error: 404 - <html>")

C7_Witness ==
    \E c \in Calls :
        /\ pc[c] = "Done"
        /\ Received(c) = <<RecvEvent(HttpResponse(404, NoHeader, <<"<html>">>))>>
        /\ delivered[c] = <<ErrorDict("HTTP error: 404 - <html>")>>

\* C8: when the first network call fails in the transport the call makes
\* that one network call only, never waits, and returns the transport-error
\* Failure holding the description of the error.
C8_TransportErrorNoRetry ==
    \A c \in Calls :
        (Received(c) # <<>> /\ IsTransportError(Received(c)[1].out))
        => LET failure == ErrorDict("Request error: " \o Received(c)[1].out.msg)
           IN  /\ Len(Sent(c)) = 1
               /\ Len(Received(c)) = 1
               /\ Waits(c) = <<>>
               /\ pc[c] \in {"Returning", "Done"}
               /\ retval[c] = failure
               /\ pc[c] = "Done" => delivered[c] = <<failure>>

C8_Witness ==
    \E c \in Calls :
        /\ pc[c] = "Done"
        /\ Received(c) = <<RecvEvent(RequestError("All connection attempts failed"))>>
        /\ delivered[c] = <<ErrorDict("Request error: All connection attempts failed")>>

\* C9: at every attempt, also after 429 responses, an HTTP error status, a
\* transport error or a 2xx body that is not JSON is the last thing the
\* call does on the network: it returns the matching Failure, without a
\* wait and without another network call.
C9_RetryOnlyOn429 ==
    \A c \in Calls :
        \A i \in 1..Len(log[c]) :
            (/\ IsRecv(log[c][i])
             /\ \/ IsHttpError(log[c][i].out)
                \/ IsTransportError(log[c][i].out)
                \/ IsMalformed(log[c][i].out))
            => LET out == log[c][i].out
               IN  /\ i = Len(log[c])
                   /\ pc[c] \in {"Returning", "Done"}
                   /\ IsHttpError(out) =>
                        retval[c] = ErrorDict("HTTP error: " \o ToString(out.status)
                                              \o " - " \o Join(out.body))
                   /\ IsTransportError(out) =>
                        retval[c] = ErrorDict("Request error: " \o out.msg)
                   /\ IsMalformed(out) =>
                        /\ site[c] = "L72"
                        /\ retval[c] = ErrorDict("Unexpected error: Expecting value: line 1 column 1 (char 0)")
                   /\ pc[c] = "Done" => delivered[c] = <<retval[c]>>

C9_Witness ==
    \E c \in Calls :
        /\ pc[c] = "Done"
        /\ Len(Received(c)) = 3
        /\ Last(Received(c)).out = HttpResponse(500, NoHeader, <<"<html>">>)
        /\ Len(Sent(c)) = 3

\* C10: whenever the last response of a call is a 2xx whose body is JSON,
\* the value the call returns is the value that body denotes, itself and
\* not a wrapper of it, whether or not 429 responses came before.
C10_SuccessIsParsedBody ==
    \A c \in Calls :
        (/\ pc[c] \in {"Returning", "Done"}
         /\ Received(c) # <<>>
         /\ Is2xx(Last(Received(c)).out)
         /\ Last(Received(c)).out.body \in ValidBodies)
        => /\ retval[c] = ParsedBody(Last(Received(c)).out.body)
           /\ pc[c] = "Done" => delivered[c] = <<ParsedBody(Last(Received(c)).out.body)>>

C10_Witness ==
    \E c \in Calls :
        /\ pc[c] = "Done"
        /\ Len(Received(c)) = 3
        /\ Last(Received(c)).out = HttpResponse(201, NoHeader, <<"[", "]">>)
        /\ delivered[c] = <<PyList(<<>>)>>

IsErrorDict(v) == v.type = "dict" /\ Len(v.items) = 2 /\ v.items[1] = "error"

\* C11: a 2xx response whose body is not JSON ends the call with an error
\* value that carries a message; no exception leaves make_request and the
\* request is not issued again.
C11_MalformedBodyIsFailure ==
    \A c \in Calls :
        (Received(c) # <<>> /\ IsMalformed(Last(Received(c)).out))
        => /\ pc[c] \in {"Returning", "Done"}
           /\ IsErrorDict(retval[c])
           /\ retval[c].items[2] # ""
           /\ Len(Sent(c)) = Len(Received(c))
           /\ IsRecv(Last(log[c]))
           /\ pc[c] = "Done" => returned[c] = <<retval[c]>>

C11_Witness ==
    \E c \in Calls :
        /\ pc[c] = "Done"
        /\ Received(c) = <<RecvEvent(HttpResponse(200, NoHeader, <<"<html>">>))>>
        /\ IsErrorDict(returned[c][1])

\* C12: whatever the network calls produce, no exception leaves
\* make_request: a call that has stopped using the network is returning or
\* has returned a value, which is the parsed body of a 2xx response or an
\* error dict with a message.
C12_NothingRaised ==
    \A c \in Calls :
        /\ pc[c] \notin {"Raising", "Raised"}
        /\ pc[c] \in {"Returning", "Done"}
           => \/ site[c] = "L65" /\ Is2xx(Last(Received(c)).out)
              \/ /\ site[c] \in {"L35", "L62", "L68", "L70", "L72"}
                 /\ IsErrorDict(retval[c])
        /\ pc[c] = "Done" => Len(returned[c]) = 1

C12_Witness ==
    \E c \in Calls :
        /\ pc[c] = "Done"
        /\ Len(Received(c)) = 2
        /\ IsTransportError(Last(Received(c)).out)
        /\ site[c] = "L70"

\* the values the model returns on its failure paths
FailureValues ==
    {ConfigFailure, RateLimitFailure}
    \cup {RequestFailure(m) : m \in TransportMessages}
    \cup {HttpFailure(st, Join(b)) : st \in {301, 404, 429, 500}, b \in Bodies}
    \cup {UnexpectedFailure("Expecting value: line 1 column 1 (char 0)")}

\* C13: a value returned for a 2xx response is never equal to a value
\* returned for a failure, so the caller can tell the two apart.
C13_SuccessDiffersFromFailure ==
    \A c \in Calls :
        (pc[c] = "Done" /\ site[c] = "L65")
        => /\ returned[c][1] \notin FailureValues
           /\ ~IsErrorDict(returned[c][1])

\* the attempt count of a call: the retries it has made
Attempts(c) == IF Sent(c) = <<>> THEN 0 ELSE Len(Sent(c)) - 1

Terminal(c) == pc[c] \in {"Returning", "Done"}

\* C14: per call, Start goes to Sending (or, without a credential, to
\* Failure); a 429 in Sending leads to Waiting and then Sending with the
\* attempt count one higher only while the count is below 3, and to Failure
\* exactly when the count is 3; the count never decreases and never exceeds
\* 3; a terminal call makes no further transition.
C14_StateMachine ==
    [][\A c \in Calls :
        /\ Attempts(c)' >= Attempts(c)
        /\ Attempts(c)' <= MAX_RETRIES
        /\ (pc[c] = "Start" /\ pc'[c] # "Start")
           => \/ pc'[c] = "Sending"
              \/ QASE_API_TOKEN = "" /\ Terminal(c)'
        /\ (pc[c] = "Waiting" /\ pc'[c] # "Waiting")
           => /\ pc'[c] = "Sending"
              /\ Attempts(c) < MAX_RETRIES
              /\ Attempts(c)' = Attempts(c) + 1
        /\ (pc[c] = "Sending" /\ pc'[c] # "Sending")
           => /\ pc'[c] = "Waiting" \/ Terminal(c)'
              /\ pc'[c] = "Waiting" => Is429(Last(Received(c)').out) /\ Attempts(c) < MAX_RETRIES
              /\ Is429(Last(Received(c)').out)
                 => (Terminal(c)' <=> Attempts(c) = MAX_RETRIES)
        /\ Terminal(c)
           => /\ Terminal(c)'
              /\ retval'[c] = retval[c]
              /\ log'[c] = log[c]
      ]_vars

\* C15: all the network calls of one logical call carry the same method,
\* URL, query parameters and JSON body as the first.
C15_RetriesRepeatRequest ==
    \A c \in Calls :
        \A i \in 1..Len(Sent(c)) :
            /\ Sent(c)[i].req = Sent(c)[1].req
            /\ Sent(c)[i].req.method = request[c].method
            /\ Sent(c)[i].req.url = "https://api.qase.io/v1" \o request[c].endpoint
            /\ Sent(c)[i].req.params = request[c].params
            /\ Sent(c)[i].req.json = request[c].json_data

C15_Witness ==
    \E c \in Calls :
        /\ Len(Sent(c)) = MAX_RETRIES + 1
        /\ request[c].method = "POST"
        /\ Sent(c)[MAX_RETRIES + 1].req.json # PyNone

\* C16: every network call, first attempt or retry, carries the configured
\* credential in its Token header and the JSON content type; none is made
\* without a credential.
C16_EveryCallAuthenticated ==
    \A c \in Calls :
        \A i \in 1..Len(Sent(c)) :
            /\ environ.set
            /\ environ.value # ""
            /\ Sent(c)[i].req.headers.Token = environ.value
            /\ Sent(c)[i].req.headers.ContentType = "application/json"

C16_Witness ==
    \E c \in Calls :
        /\ Len(Sent(c)) = MAX_RETRIES + 1
        /\ Sent(c)[MAX_RETRIES + 1].req.headers.Token = "secret-token"

\* the sleeps a call makes when it runs alone and receives `outs`
WaitsAlone(outs) ==
    [i \in 1..Cardinality({j \in 1..Len(outs) : Is429(outs[j].out) /\ j <= MAX_RETRIES}) |->
        SleepEvent(IF outs[i].out.retry_after.present
                   THEN DeltaSeconds(outs[i].out.retry_after.value)
                   ELSE 60)]

\* the value a call returns when it runs alone and `outs` ends it
ValueAlone(outs) ==
    LET out == Last(outs).out
    IN  IF Is429(out) THEN ErrorDict("Rate limit exceeded after maximum retries")
        ELSE IF Is2xx(out) THEN ParsedBody(out.body)
        ELSE ErrorDict("HTTP error: " \o ToString(out.status) \o " - " \o Join(out.body))

\* the state of a call as its own log alone determines it
OwnLogDecides(c) ==
    /\ Waits(c) = WaitsAlone(Received(c))
    /\ pc[c] = "Sending" => Top(c).retries = Len(Received(c))
    /\ pc[c] = "Waiting" => IsSleep(Last(log[c])) /\ Is429(Last(Received(c)).out)
    /\ Terminal(c)
       => /\ retval[c] = ValueAlone(Received(c))
          /\ Is429(Last(Received(c)).out) => Len(Received(c)) = MAX_RETRIES + 1
    /\ pc[c] = "Done" => returned[c] = <<ValueAlone(Received(c))>>

\* the next step of a call is possible whatever the other calls are doing
NeverBlocked(c) ==
    /\ pc[c] = "Idle" => ENABLED InvokeConc(c)
    /\ pc[c] = "Start" => ENABLED Begin(c)
    /\ pc[c] = "Sending" => ENABLED RespondConc(c)
    /\ pc[c] = "Waiting" => ENABLED Wake(c)
    /\ pc[c] = "Returning" => ENABLED Unwind(c)

\* a step belongs to one call and leaves every other call as it was
OwnStateOnly ==
    \E c \in Calls :
        \A d \in Calls \ {c} :
            /\ pc'[d] = pc[d]
            /\ request'[d] = request[d]
            /\ stack'[d] = stack[d]
            /\ log'[d] = log[d]
            /\ retval'[d] = retval[d]
            /\ site'[d] = site[d]
            /\ delivered'[d] = delivered[d]
            /\ returned'[d] = returned[d]

\* C17: with several calls interleaved, the value, the attempt count and
\* the waits of each call follow from the responses to its own network
\* calls; a call sending or waiting never disables the next step of
\* another; no step writes the credential or the state of a call other
\* than its own.
C17_CallsIndependent ==
    /\ [](\A c \in Calls : OwnLogDecides(c) /\ NeverBlocked(c))
    /\ [][OwnStateOnly /\ QASE_API_TOKEN' = QASE_API_TOKEN /\ environ' = environ]_vars

C17_Witness ==
    \E c, d \in Calls :
        /\ c # d
        /\ pc[c] = "Waiting"
        /\ Len(Received(c)) = 1
        /\ pc[d] = "Done"
        /\ Len(Received(d)) = MAX_RETRIES + 1
        /\ returned[d] = <<PyDict(<<"result", "{id:1}">>)>>

\* C18: a call that has been invoked eventually is done, whatever the
\* remote answers, 429 to every attempt included.
C18_Terminates ==
    \A c \in Calls : (pc[c] = "Start") ~> (pc[c] = "Done" /\ Len(returned[c]) = 1)

C18_Witness ==
    \E c \in Calls :
        /\ pc[c] = "Done"
        /\ Len(Received(c)) = MAX_RETRIES + 1
        /\ \A i \in 1..Len(Received(c)) : Is429(Received(c)[i].out)
        /\ returned[c] = <<RateLimitFailure>>

\* C19: a tool calls make_request once, with the request built from its
\* arguments and retries left at 0, and returns to the host the value
\* make_request returned, success or failure, as it is.
C19_ToolsAreThinCallers ==
    \A c \in Calls :
        /\ pc[c] # "Idle" => request[c] = ToolRequest(tool[c])
        /\ \A i \in 1..Len(stack[c]) : stack[c][i].retries = i - 1
        /\ \A i \in 1..Len(Sent(c)) : AttemptAt(c, i) <= MAX_RETRIES
        /\ returned[c] = delivered[c]
        /\ Len(returned[c]) = (IF pc[c] = "Done" THEN 1 ELSE 0)
        /\ pc[c] = "Done" => returned[c] = <<retval[c]>>

C19_Witness ==
    \E c \in Calls :
        /\ pc[c] = "Done"
        /\ tool[c].name = "qase_update_test_case"
        /\ Len(Received(c)) = 2
        /\ site[c] = "L65"
        /\ returned[c] = <<PyDict(<<"result", "{id:1}">>)>>

\* the keys and the values of a dict of the model
KeysOf(d) == {d.items[2 * i - 1] : i \in 1..(Len(d.items) \div 2)}

ValuesOf(d) == {d.items[2 * i] : i \in 1..(Len(d.items) \div 2)}

\* the key under which a tool sends each of its optional arguments
KeyOfArg(name, arg) ==
    LET f == CHOOSE g \in {FieldsOf(name)[i] : i \in 1..Len(FieldsOf(name))} : g.arg = arg
    IN  f.key

\* C20: for every tool and every optional argument the caller leaves at
\* None, the params and the body passed to make_request, and sent on the
\* network, lack the key of that argument, and hold no None value at all.
C20_UnsetArgsOmitted ==
    \A c \in Calls :
        pc[c] # "Idle"
        => /\ \A a \in OptionalArgs(tool[c].name) :
                tool[c].args[a] = PyNone
                => /\ KeyOfArg(tool[c].name, a) \notin KeysOf(request[c].params)
                   /\ KeyOfArg(tool[c].name, a) \notin KeysOf(request[c].json_data)
           /\ "None" \notin ValuesOf(request[c].params) \cup ValuesOf(request[c].json_data)
           /\ \A i \in 1..Len(Sent(c)) :
                "None" \notin ValuesOf(Sent(c)[i].req.params) \cup ValuesOf(Sent(c)[i].req.json)

C20_Witness ==
    \E c \in Calls :
        /\ tool[c].name = "qase_update_test_case"
        /\ tool[c].args["suite_id"] = PyInt("5")
        /\ tool[c].args["title"] = PyNone
        /\ Len(Sent(c)) = 1
        /\ Sent(c)[1].req.json = PyDict(<<"suite_id", "5">>)

\* the call was cancelled: CancelledError is leaving, or has left, its frames
Cancelled(c) == pc[c] \in {"Raising", "Raised"} /\ retval[c].type = "CancelledError"

\* C21: a call cancelled while sending or waiting stays cancelled, makes no
\* network call and no wait afterwards and returns nothing to the tool or
\* the host (a value is returned only out of a response received, never out
\* of a pending network call or wait); no step writes the credential or the state of another call, and
\* the calls not cancelled go on as their own responses decide.
C21_CancelAbandons ==
    /\ [](\A c \in Calls :
            /\ Cancelled(c) => returned[c] = <<>> /\ delivered[c] = <<>>
            /\ Terminal(c) => log[c] # <<>> /\ IsRecv(Last(log[c]))
            /\ ~Cancelled(c) => OwnLogDecides(c) /\ NeverBlocked(c))
    /\ [][/\ \A c \in Calls :
               /\ Cancelled(c) => Cancelled(c)' /\ log'[c] = log[c]
               /\ (~Cancelled(c) /\ Cancelled(c)')
                  => pc[c] \in {"Sending", "Waiting"} /\ log'[c] = log[c]
          /\ OwnStateOnly
          /\ QASE_API_TOKEN' = QASE_API_TOKEN
          /\ environ' = environ]_vars

C21_Witness ==
    \E c, d \in Calls :
        /\ c # d
        /\ Cancelled(c)
        /\ pc[c] = "Raised"
        /\ Len(Sent(c)) = 2
        /\ IsSleep(Last(log[c]))
        /\ pc[d] = "Done"
        /\ Len(Sent(d)) = MAX_RETRIES + 1
        /\ returned[d] = <<PyDict(<<"result", "{id:1}">>)>>

\* The loop the recursion is compared with: one frame, an attempt counter
\* running from 0 to MAX_RETRIES, the body of make_request run once per
\* iteration on the outcomes `outs` in turn.  It yields the events of the
\* run, whether the run has ended, and the value it ended with.
RECURSIVE Iterate(_, _, _, _, _)
Iterate(req, token, outs, attempt, events) ==
    LET sent == Append(events, SendEvent(NetworkCall(req, token)))
        i == attempt + 1
    IN  IF attempt > MAX_RETRIES
        THEN [log |-> events, done |-> TRUE, value |-> PyNone]
        ELSE IF i > Len(outs)
        THEN [log |-> sent, done |-> FALSE, value |-> PyNone]
        ELSE LET step == Interpret(outs[i].out, attempt)
             IN  IF step.next = "sleep"
                 THEN Iterate(req, token, outs, attempt + 1,
                              sent \o <<outs[i], SleepEvent(step.secs)>>)
                 ELSE [log |-> Append(sent, outs[i]), done |-> TRUE, value |-> step.value]

LoopRun(req, token, outs) ==
    IF token = ""
    THEN [log |-> <<>>, done |-> TRUE, value |-> ConfigFailure]
    ELSE Iterate(req, token, outs, 0, <<>>)

\* C22: whatever outcomes a call has received, its network calls, its
\* waits and the value it ends with are those of the loop run on the same
\* outcomes, it ends exactly when the loop does, and it never holds more
\* than MAX_RETRIES + 1 frames.
C22_RecursionIsBoundedLoop ==
    \A c \in Calls :
        /\ Len(stack[c]) <= MAX_RETRIES + 1
        /\ pc[c] \notin {"Raising", "Raised"}
        /\ pc[c] \notin {"Idle", "Start"}
           => LET run == LoopRun(request[c], QASE_API_TOKEN, Received(c))
              IN  /\ pc[c] = "Waiting" => ~run.done /\ run.log = Append(log[c], Last(Sent(c)))
                  /\ pc[c] = "Sending" => ~run.done /\ run.log = log[c]
                  /\ Terminal(c) => run.done /\ run.log = log[c] /\ run.value = retval[c]
                  /\ pc[c] = "Done" => returned[c] = <<run.value>>

C22_Witness ==
    \E c \in Calls :
        /\ pc[c] = "Returning"
        /\ Len(stack[c]) = MAX_RETRIES + 1
        /\ Top(c).retries = MAX_RETRIES
        /\ site[c] = "L65"
        /\ Len(Waits(c)) = MAX_RETRIES

\* the positions of the network calls in the log of a call
SendAt(c) == {i \in 1..Len(log[c]) : IsSend(log[c][i])}

\* the waits of a call that lie between its i-th and its j-th event
WaitsBetween(c, i, j) == {k \in (i + 1)..(j - 1) : IsSleep(log[c][k])}

\* C23: in the log of a call exactly one wait lies between two network
\* calls that follow each other; every wait follows a 429 received with
\* fewer than MAX_RETRIES retries made and is followed by a network call or
\* still going on; no wait precedes the first network call, none follows
\* the response that ends the call, the 429 received after MAX_RETRIES
\* retries included; a call that has ended logs nothing more.
C23_WaitsOnlyBetweenCalls ==
    /\ [](\A c \in Calls :
            /\ \A i, j \in SendAt(c) :
                (i < j /\ ~\E k \in SendAt(c) : i < k /\ k < j)
                => Cardinality(WaitsBetween(c, i, j)) = 1
            /\ \A k \in 1..Len(log[c]) :
                IsSleep(log[c][k])
                => /\ k > 2
                   /\ IsRecv(log[c][k - 1])
                   /\ Is429(log[c][k - 1].out)
                   /\ Cardinality({i \in SendAt(c) : i < k}) <= MAX_RETRIES
                   /\ IF k = Len(log[c]) THEN pc[c] = "Waiting" ELSE IsSend(log[c][k + 1])
            /\ pc[c] = "Waiting" => IsSleep(Last(log[c]))
            /\ Len(Waits(c)) <= MAX_RETRIES
            /\ pc[c] \in {"Returning", "Raising", "Done", "Raised"}
               => /\ log[c] # <<>> => IsRecv(Last(log[c]))
                  /\ log[c] # <<>> => Len(Waits(c)) = Len(Received(c)) - 1)
    /\ [][\A c \in Calls :
            pc[c] \in {"Returning", "Raising", "Done", "Raised"} => log'[c] = log[c]]_vars

C23_Witness ==
    \E c \in Calls :
        /\ pc[c] = "Done"
        /\ returned[c] = <<RateLimitFailure>>
        /\ Len(Sent(c)) = MAX_RETRIES + 1
        /\ Len(Waits(c)) = MAX_RETRIES
        /\ Is429(Last(log[c]).out)

\* the keys of the query parameters and of the body of a request
RequestKeys(req) == KeysOf(req.params) \cup KeysOf(req.json_data)

\* the value a dict of the model holds under a key it has
ItemOf(d, key) ==
    LET i == CHOOSE j \in 1..(Len(d.items) \div 2) : d.items[2 * j - 1] = key
    IN  d.items[2 * i]

\* the invocation of a tool in which the caller sets the optional argument
\* `arg` to `v` and no other
Alone(name, arg, v) ==
    [name |-> name,
     args |-> [a \in DOMAIN BaseArgs(name) \cup OptionalArgs(name) |->
                  IF a \in DOMAIN BaseArgs(name) THEN BaseArgs(name)[a]
                  ELSE IF a = arg THEN v
                  ELSE PyNone]]

\* the operation that creates what `name` updates, or updates what it creates
Counterpart(name) ==
    IF name = "qase_create_test_case" THEN "qase_update_test_case"
    ELSE "qase_create_test_case"

\* C24: every optional argument the caller sets to a value other than None,
\* a false one included, stands under its key in the query parameters or
\* the body of the request; an optional argument that the creation and the
\* update of a test case share is sent by both or by neither.
C24_SetArgsIncluded ==
    \A c \in Calls :
        pc[c] # "Idle"
        => /\ \A a \in OptionalArgs(tool[c].name) :
                tool[c].args[a] # PyNone
                => LET key == KeyOfArg(tool[c].name, a)
                       d == IF key \in KeysOf(request[c].params)
                            THEN request[c].params ELSE request[c].json_data
                   IN  /\ key \in RequestKeys(request[c])
                       /\ ItemOf(d, key) = Repr(tool[c].args[a])
           /\ tool[c].name \in {"qase_create_test_case", "qase_update_test_case"}
              => \A a \in OptionalArgs(tool[c].name) \cap OptionalArgs(Counterpart(tool[c].name)) :
                    tool[c].args[a] # PyNone
                    => (KeyOfArg(tool[c].name, a) \in RequestKeys(request[c])
                        <=> KeyOfArg(Counterpart(tool[c].name), a) \in
                              RequestKeys(ToolRequest(Alone(Counterpart(tool[c].name), a,
                                                            tool[c].args[a]))))

\* the frames of a call whose client is open
OpenClients(c) == {i \in 1..Len(stack[c]) : stack[c][i].client}

\* C25: a call holds one open client per network call it has made so far,
\* the client of every earlier attempt still open while a retry is sent or
\* waited for, so at most MAX_RETRIES + 1 at once; a step that makes a
\* network call opens exactly one client and no other step opens any; when
\* the call has returned its value, or raised, no client is open.
C25_ClientsNestedAndClosed ==
    /\ [](\A c \in Calls :
            /\ Cardinality(OpenClients(c)) <= MAX_RETRIES + 1
            /\ pc[c] \in {"Sending", "Waiting"}
               => /\ OpenClients(c) = 1..Len(Sent(c))
                  /\ Len(stack[c]) = Len(Sent(c))
                  /\ \A i \in OpenClients(c) : stack[c][i].retries = i - 1
            /\ pc[c] \in {"Done", "Raised"} => stack[c] = <<>>
            /\ returned[c] # <<>> => OpenClients(c) = {})
    /\ [][\A c \in Calls :
            /\ Len(Sent(c))' = Len(Sent(c)) + 1
               => Cardinality(OpenClients(c))' = Cardinality(OpenClients(c)) + 1
            /\ Len(Sent(c))' = Len(Sent(c))
               => Cardinality(OpenClients(c))' <= Cardinality(OpenClients(c))]_vars

C25_Witness ==
    \E c \in Calls :
        /\ pc[c] = "Waiting"
        /\ Top(c).retries = MAX_RETRIES - 1
        /\ OpenClients(c) = 1..MAX_RETRIES
        /\ Len(Waits(c)) = MAX_RETRIES

====
